---- MODULE Spec2Model ----
(***************************************************************************)
(* Model of useKnowledgeScoper (src/hooks/useKnowledgeScoper.ts, the v3    *)
(* look-ahead revision): the line-by-line pass that partitions raw rule    *)
(* text into named scopes.                                                 *)
(*                                                                         *)
(* A JavaScript string is a sequence of one-character strings.  The        *)
(* character U+2022 is written "U+2022".  null and undefined are the       *)
(* one-element sequences <<"null">> and <<"undefined">>, which no string   *)
(* of characters equals.                                                   *)
(***************************************************************************)
EXTENDS Integers, Sequences, FiniteSets, TLC

\* ------------------------------------------------------------------ bounds
\* The longest input, in lines: for the scope table, for the detection rules
\* and for the scope names; and for each of two interleaved invocations.
MaxLines == 3
MaxRuleLines == 3
MaxNameLines == 4
MaxCallLines == 2
MaxFairLines == 3

\* ------------------------------------------------------- characters, strings
NULL == <<"null">>
UNDEFINED == <<"undefined">>
BULLET == "U+2022"
NL == "\n"

Lower == <<"a","b","c","d","e","f","g","h","i","j","k","l","m",
           "n","o","p","q","r","s","t","u","v","w","x","y","z">>
Upper == <<"A","B","C","D","E","F","G","H","I","J","K","L","M",
           "N","O","P","Q","R","S","T","U","V","W","X","Y","Z">>
Digits == <<"0","1","2","3","4","5","6","7","8","9">>

Range(s) == {s[k] : k \in DOMAIN s}
LowerSet == Range(Lower)
LetterSet == Range(Lower) \cup Range(Upper)
DigitSet == Range(Digits)
\* \s of a regular expression and the characters trim() strips
SpaceSet == {" ", "\t", "\r", NL}
IsLetter(c) == c \in LetterSet
IsDigit(c) == c \in DigitSet
IsSpace(c) == c \in SpaceSet
\* what . of a regular expression does not match
IsLineTerminator(c) == c \in {NL, "\r"}

\* the digit's value, the position of c in Digits less one
DigitVal(c) == (CHOOSE k \in DOMAIN Digits : Digits[k] = c) - 1

\* String.prototype.toUpperCase on one character
UpperChar(c) ==
  IF c \in LowerSet THEN Upper[CHOOSE k \in DOMAIN Lower : Lower[k] = c] ELSE c

\* String.prototype.toUpperCase
ToUpperCase(s) == [k \in DOMAIN s |-> UpperChar(s[k])]

\* String.prototype.trim
Trim(s) ==
  IF \A k \in DOMAIN s : IsSpace(s[k]) THEN <<>>
  ELSE LET a == CHOOSE k \in DOMAIN s : ~IsSpace(s[k]) /\ \A j \in 1..(k-1) : IsSpace(s[j])
           b == CHOOSE k \in DOMAIN s : ~IsSpace(s[k]) /\ \A j \in (k+1)..Len(s) : IsSpace(s[j])
       IN SubSeq(s, a, b)

\* rawRules.split('\n'): the pieces between the newlines, at least one piece
Split(s) ==
  LET nl == {k \in DOMAIN s : s[k] = NL}
      \* the position of the r-th newline; 0 before the text, Len(s) + 1 after it
      pos(r) == IF r = 0 THEN 0
                ELSE IF r > Cardinality(nl) THEN Len(s) + 1
                ELSE CHOOSE k \in nl : Cardinality({j \in nl : j < k}) = r - 1
  IN [r \in 1..(Cardinality(nl) + 1) |-> SubSeq(s, pos(r - 1) + 1, pos(r) - 1)]

\* the text whose split gives ls (the empty text for no line)
RECURSIVE Join(_)
Join(ls) ==
  IF Len(ls) = 0 THEN <<>>
  ELSE IF Len(ls) = 1 THEN ls[1]
  ELSE ls[1] \o <<NL>> \o Join(Tail(ls))

\* JavaScript truthiness of a string | null | undefined
Falsy(v) == v = NULL \/ v = UNDEFINED \/ v = <<>>

\* ------------------------------------------------------- regular expressions
\* /^\[([^\]]+)\]:?$/ : capture group 1, or NULL when the line does not match
bracketMatch(line) ==
  LET n == Len(line)
      inner(hi) == SubSeq(line, 2, hi)
      ok(hi) == hi >= 2 /\ \A k \in 2..hi : line[k] # "]"
  IN IF n >= 3 /\ line[1] = "[" /\ line[n] = "]" /\ ok(n - 1) THEN inner(n - 1)
     ELSE IF n >= 4 /\ line[1] = "[" /\ line[n] = ":" /\ line[n-1] = "]" /\ ok(n - 2)
          THEN inner(n - 2)
     ELSE NULL

\* /^#+\s+(.+)$/ : #+ and \s+ are greedy and give back only what (.+) needs
mdMatch(line) ==
  LET n == Len(line)
      h == Cardinality({k \in 1..n : \A j \in 1..k : line[j] = "#"})
      w == Cardinality({k \in (h+1)..n : \A j \in (h+1)..k : IsSpace(line[j])})
      dots(lo) == \A k \in lo..n : ~IsLineTerminator(line[k])
  IN IF h >= 1 /\ w >= 1 /\ h + w < n /\ dots(h + w + 1) THEN SubSeq(line, h + w + 1, n)
     ELSE IF h >= 1 /\ w >= 2 /\ h + w = n /\ dots(n) THEN SubSeq(line, n, n)
     ELSE NULL

\* /^\*\*([^*]+)\*\*:?$/
boldMatch(line) ==
  LET n == Len(line)
      inner(hi) == SubSeq(line, 3, hi)
      ok(hi) == hi >= 3 /\ \A k \in 3..hi : line[k] # "*"
      open == n >= 5 /\ line[1] = "*" /\ line[2] = "*"
  IN IF open /\ line[n] = "*" /\ line[n-1] = "*" /\ ok(n - 2) THEN inner(n - 2)
     ELSE IF open /\ n >= 6 /\ line[n] = ":" /\ line[n-1] = "*" /\ line[n-2] = "*" /\ ok(n - 3)
          THEN inner(n - 3)
     ELSE NULL

\* the class [A-Za-z0-9 _/-]
LabelSet == LetterSet \cup DigitSet \cup {" ", "_", "/", "-"}
IsLabelChar(c) == c \in LabelSet

\* /^([A-Za-z0-9 _/-]+):$/
colonMatch(line) ==
  LET n == Len(line)
  IN IF n >= 2 /\ line[n] = ":" /\ \A k \in 1..(n-1) : IsLabelChar(line[k])
     THEN SubSeq(line, 1, n - 1)
     ELSE NULL

\* /^(?:\d+\.|[-*U+2022])\s/.test(s)
IsListItem(s) ==
  LET n == Len(s)
      d == Cardinality({k \in 1..n : \A j \in 1..k : IsDigit(s[j])})
  IN \/ d >= 1 /\ n >= d + 2 /\ s[d+1] = "." /\ IsSpace(s[d+2])
     \/ n >= 2 /\ s[1] \in {"-", "*", BULLET} /\ IsSpace(s[2])

\* /[.!?]$/.test(s)
IsSentence(s) == Len(s) >= 1 /\ s[Len(s)] \in {".", "!", "?"}

\* ------------------------------------------------------------ the scope table
\* A JavaScript object is the sequence of its own properties, [key, val], in
\* the order of their creation.
GLOBAL_KEY == <<"G","L","O","B","A","L"," ","C","O","N","T","E","X","T">>
START_KNOWLEDGE == <<"S","T","A","R","T"," ","K","N","O","W","L","E","D","G","E">>
END_KNOWLEDGE == <<"E","N","D"," ","K","N","O","W","L","E","D","G","E">>

OwnKeys(obj) == [k \in DOMAIN obj |-> obj[k].key]
HasOwn(obj, key) == \E k \in DOMAIN obj : obj[k].key = key
\* obj[key] of an own property
Get(obj, key) == obj[CHOOSE k \in DOMAIN obj : obj[k].key = key].val
\* obj[key] = val: a new property goes last, an existing one keeps its place
Put(obj, key, val) ==
  IF HasOwn(obj, key)
  THEN [k \in DOMAIN obj |-> IF obj[k].key = key THEN [key |-> key, val |-> val] ELSE obj[k]]
  ELSE Append(obj, [key |-> key, val |-> val])

\* 2^32 - 2, the largest array index, in digits
MaxArrayIndex == <<"4","2","9","4","9","6","7","2","9","4">>
\* a < b for digit strings of one length
DigitsLess(a, b) ==
  \E k \in DOMAIN a : /\ DigitVal(a[k]) < DigitVal(b[k])
                      /\ \A j \in 1..(k-1) : a[j] = b[j]
\* a < b for canonical numeric strings
IndexLess(a, b) == Len(a) < Len(b) \/ (Len(a) = Len(b) /\ DigitsLess(a, b))
\* the key is a canonical numeric string of an integer in 0 .. 2^32 - 2
IsArrayIndex(key) ==
  /\ Len(key) >= 1
  /\ \A k \in DOMAIN key : IsDigit(key[k])
  /\ Len(key) = 1 \/ key[1] # "0"
  /\ Len(key) <= Len(MaxArrayIndex)
  /\ ~IndexLess(MaxArrayIndex, key)

\* Object.keys(obj): the array-index keys in ascending numeric order, then the
\* other string keys in the order of their creation (OrdinaryOwnPropertyKeys)
ObjectKeys(obj) ==
  LET keys == OwnKeys(obj)
      idx == {key \in Range(keys) : IsArrayIndex(key)}
      sorted == [r \in 1..Cardinality(idx) |->
                   CHOOSE key \in idx : Cardinality({o \in idx : IndexLess(o, key)}) = r - 1]
  IN sorted \o SelectSeq(keys, LAMBDA key : ~IsArrayIndex(key))

\* ------------------------------------------------------------ header detection
\* the length limits of the colon rule and of the look-ahead rule
ColonMaxLen == 50
ShortMaxLen == 60

\* HEURISTIC 1 with <= for < in the length test of the colon rule
ExplicitHeaderInclusive(line) ==
  IF ~Falsy(bracketMatch(line)) THEN bracketMatch(line)
  ELSE IF ~Falsy(mdMatch(line)) THEN mdMatch(line)
  ELSE IF ~Falsy(boldMatch(line)) THEN boldMatch(line)
  ELSE IF ~Falsy(colonMatch(line)) /\ Len(line) <= ColonMaxLen THEN colonMatch(line)
  ELSE NULL

\* HEURISTIC 1: the if / else-if chain over the four explicit matches
ExplicitHeader(line) ==
  IF ~Falsy(bracketMatch(line)) THEN bracketMatch(line)
  ELSE IF ~Falsy(mdMatch(line)) THEN mdMatch(line)
  ELSE IF ~Falsy(boldMatch(line)) THEN boldMatch(line)
  ELSE IF ~Falsy(colonMatch(line)) /\ Len(line) < ColonMaxLen THEN colonMatch(line)
  ELSE NULL

\* the look-ahead without the while loop: the line after i, blank or not
NextIndexNoSkip(ls, i) == i + 1

\* the while loop: the index (0-based) of the next non-blank line after i, or
\* lines.length
NextIndex(ls, i) ==
  IF \E k \in (i+1)..(Len(ls)-1) : Trim(ls[k+1]) # <<>>
  THEN CHOOSE k \in (i+1)..(Len(ls)-1) :
         /\ Trim(ls[k+1]) # <<>>
         /\ \A j \in (i+1)..(k-1) : Trim(ls[j+1]) = <<>>
  ELSE Len(ls)

\* nextLine
NextLine(ls, i) ==
  IF NextIndex(ls, i) < Len(ls) THEN Trim(ls[NextIndex(ls, i) + 1]) ELSE <<>>

\* the length test with <= for <
IsShortInclusive(line) == Len(line) <= ShortMaxLen
IsShort(line) == Len(line) < ShortMaxLen

\* the look-ahead that accepts a sentence
ImplicitHeaderAnySentence(ls, i, line) ==
  IF IsListItem(NextLine(ls, i)) /\ ~IsListItem(line) /\ IsShort(line)
  THEN line
  ELSE NULL

\* HEURISTIC 2: the line itself when the look-ahead accepts it
ImplicitHeader(ls, i, line) ==
  IF IsListItem(NextLine(ls, i)) /\ ~IsListItem(line) /\ IsShort(line) /\ ~IsSentence(line)
  THEN line
  ELSE NULL

\* the look-ahead consulted before the explicit rules
DetectHeaderImplicitFirst(ls, i) ==
  LET line == Trim(ls[i+1])
  IN IF ~Falsy(ImplicitHeader(ls, i, line)) THEN ImplicitHeader(ls, i, line)
     ELSE ExplicitHeader(line)

\* detectedHeader when APPLY SCOPING is reached for line i (0-based)
DetectHeader(ls, i) ==
  LET line == Trim(ls[i+1])
  IN IF ~Falsy(ExplicitHeader(line)) THEN ExplicitHeader(line)
     ELSE ImplicitHeader(ls, i, line)

\* the normalization without toUpperCase()
NormalizedScopeNoUpper(header) == Trim(header)
\* detectedHeader.trim().toUpperCase()
NormalizedScope(header) == ToUpperCase(Trim(header))

\* the tag test that forgets END KNOWLEDGE
IsSystemTagStartOnly(name) == name = START_KNOWLEDGE
\* the system tags
IsSystemTag(name) == name = START_KNOWLEDGE \/ name = END_KNOWLEDGE

\* an early return of an empty table
EmptyResultNoScopes == [scopes |-> <<>>, availableScopes |-> <<>>]
\* the result of the early return for a missing or empty text
EmptyResult ==
  [scopes |-> <<[key |-> GLOBAL_KEY, val |-> <<>>]>>, availableScopes |-> <<GLOBAL_KEY>>]

\* const scopes = { [GLOBAL_KEY]: [] }; let currentScope = GLOBAL_KEY
InitialState ==
  [scopes |-> <<[key |-> GLOBAL_KEY, val |-> <<>>]>>, currentScope |-> GLOBAL_KEY]

\* APPLY SCOPING without the test for an existing bucket: a header always
\* assigns an empty list
ApplyScopingResets(st, header, line) ==
  IF ~Falsy(header)
  THEN LET normalizedScope == ToUpperCase(Trim(header))
       IN IF normalizedScope # START_KNOWLEDGE /\ normalizedScope # END_KNOWLEDGE
          THEN [currentScope |-> normalizedScope,
                scopes |-> Put(st.scopes, normalizedScope, <<>>)]
          ELSE st
  ELSE [st EXCEPT !.scopes = Put(st.scopes, st.currentScope,
                                 Append(Get(st.scopes, st.currentScope), line))]

\* APPLY SCOPING with the else branch on the inner if: a system tag header is
\* pushed as content
ApplyScopingTagAsContent(st, header, line) ==
  LET push == [st EXCEPT !.scopes = Put(st.scopes, st.currentScope,
                                        Append(Get(st.scopes, st.currentScope), line))]
  IN IF ~Falsy(header)
     THEN LET normalizedScope == ToUpperCase(Trim(header))
          IN IF normalizedScope # START_KNOWLEDGE /\ normalizedScope # END_KNOWLEDGE
             THEN [currentScope |-> normalizedScope,
                   scopes |-> IF ~HasOwn(st.scopes, normalizedScope)
                              THEN Put(st.scopes, normalizedScope, <<>>)
                              ELSE st.scopes]
             ELSE push
     ELSE push

\* APPLY SCOPING without the creation of the bucket: a header only selects
ApplyScopingNoBucket(st, header, line) ==
  IF ~Falsy(header)
  THEN LET normalizedScope == ToUpperCase(Trim(header))
       IN IF normalizedScope # START_KNOWLEDGE /\ normalizedScope # END_KNOWLEDGE
          THEN [currentScope |-> normalizedScope, scopes |-> st.scopes]
          ELSE st
  ELSE [st EXCEPT !.scopes = Put(st.scopes, st.currentScope,
                                 Append(Get(st.scopes, st.currentScope), line))]

\* APPLY SCOPING: st is [scopes, currentScope]; header is detectedHeader
ApplyScoping(st, header, line) ==
  IF ~Falsy(header)
  THEN LET normalizedScope == NormalizedScope(header)
       IN IF ~IsSystemTag(normalizedScope)
          THEN [currentScope |-> normalizedScope,
                scopes |-> IF ~HasOwn(st.scopes, normalizedScope)
                           THEN Put(st.scopes, normalizedScope, <<>>)
                           ELSE st.scopes]
          ELSE st
  ELSE [st EXCEPT !.scopes = Put(st.scopes, st.currentScope,
                                 Append(Get(st.scopes, st.currentScope), line))]

\* one iteration of the for loop, for line i (0-based)
LoopBody(ls, i, st) ==
  LET line == Trim(ls[i+1])
  IN IF Falsy(line) THEN st ELSE ApplyScoping(st, DetectHeader(ls, i), line)

\* the iterations i, i + 1, ..., lines.length - 1
RECURSIVE Loop(_, _, _)
Loop(ls, i, st) == IF i < Len(ls) THEN Loop(ls, i + 1, LoopBody(ls, i, st)) ELSE st

\* the value useKnowledgeScoper computes for rawRules
Parse(raw) ==
  IF Falsy(raw) THEN EmptyResult
  ELSE LET st == Loop(Split(raw), 0, InitialState)
       IN [scopes |-> st.scopes, availableScopes |-> ObjectKeys(st.scopes)]

\* ------------------------------------------------------------ the earlier revision
\* useKnowledgeScoper of src/unnamed/part_000: the same four regular
\* expressions, no look-ahead, lines.forEach in place of the indexed loop.
ColonMaxLenV2 == 50

\* the if / else-if chain over the four matches of the trimmed line
ExplicitHeaderV2(trimmed) ==
  IF ~Falsy(bracketMatch(trimmed)) THEN bracketMatch(trimmed)
  ELSE IF ~Falsy(mdMatch(trimmed)) THEN mdMatch(trimmed)
  ELSE IF ~Falsy(boldMatch(trimmed)) THEN boldMatch(trimmed)
  ELSE IF ~Falsy(colonMatch(trimmed)) /\ Len(trimmed) < ColonMaxLenV2 THEN colonMatch(trimmed)
  ELSE NULL

\* SCOPING LOGIC: st is [scopes, currentScope]
ApplyScopingV2(st, detected, trimmed) ==
  IF ~Falsy(detected)
  THEN LET normalizedScope == ToUpperCase(Trim(detected))
       IN IF normalizedScope # START_KNOWLEDGE /\ normalizedScope # END_KNOWLEDGE
          THEN [currentScope |-> normalizedScope,
                scopes |-> IF ~HasOwn(st.scopes, normalizedScope)
                           THEN Put(st.scopes, normalizedScope, <<>>)
                           ELSE st.scopes]
          ELSE st
  ELSE [st EXCEPT !.scopes = Put(st.scopes, st.currentScope,
                                 Append(Get(st.scopes, st.currentScope), trimmed))]

\* the callback of forEach for one line
LineCallbackV2(line, st) ==
  LET trimmed == Trim(line)
  IN IF Falsy(trimmed) THEN st ELSE ApplyScopingV2(st, ExplicitHeaderV2(trimmed), trimmed)

\* lines.forEach from line k (1-based) on
RECURSIVE ForEachV2(_, _, _)
ForEachV2(ls, k, st) ==
  IF k <= Len(ls) THEN ForEachV2(ls, k + 1, LineCallbackV2(ls[k], st)) ELSE st

\* the value the earlier revision computes for rawRules
ParseV2(raw) ==
  IF Falsy(raw)
  THEN [scopes |-> <<[key |-> GLOBAL_KEY, val |-> <<>>]>>, availableScopes |-> <<GLOBAL_KEY>>]
  ELSE LET st == ForEachV2(Split(raw), 1,
                           [scopes |-> <<[key |-> GLOBAL_KEY, val |-> <<>>]>>,
                            currentScope |-> GLOBAL_KEY])
       IN [scopes |-> st.scopes, availableScopes |-> ObjectKeys(st.scopes)]

\* ------------------------------------------------------------ inputs
Rep(c, n) == [k \in 1..n |-> c]

\* lines for the scope table: headers, an integer-like name, system tags
\* bare and bracketed, content, a list item, an empty line and a line of blanks
Pool ==
  { <<>>,
    <<" ", "\t">>,
    <<"[","F","o","o","]",":">>,
    <<"[","1","]">>,
    <<"S","T","A","R","T"," ","K","N","O","W","L","E","D","G","E">>,
    <<"[","s","t","a","r","t"," ","k","n","o","w","l","e","d","g","e","]">>,
    <<"E","N","D"," ","K","N","O","W","L","E","D","G","E">>,
    <<"R","u","l","e"," ","A">>,
    <<" ","-"," ","x">> }

\* lines for the detection rules: one line per rule, lines at the two length
\* limits, a list item, a sentence, a blank line
RulePool ==
  { <<>>,
    <<"[","F","o","o","]",":">>,
    <<"#"," ","e","n","d"," ","k","n","o","w","l","e","d","g","e">>,
    <<"*","*","B","a","r","*","*",":">>,
    Rep("a", ColonMaxLen - 2) \o <<":">>,
    Rep("a", ColonMaxLen - 1) \o <<":">>,
    Rep("b", ShortMaxLen - 1),
    Rep("b", ShortMaxLen),
    <<"1","."," ","y">>,
    <<"D","o","n","e",".">> }

\* lines for the scope names: one name in two spellings, a blank name,
\* content, a blank line, a system tag
NamePool ==
  { <<>>,
    <<"[","F","o","o","]",":">>,
    <<" ","["," ","f","o","o"," ","]"," ">>,
    <<"["," ","]">>,
    <<"R","u","l","e"," ","A">>,
    <<"[","e","n","d"," ","k","n","o","w","l","e","d","g","e","]">> }

\* undefined, and the texts of at most n lines of the pool
Inputs(pool, n) ==
  {UNDEFINED} \cup {Join(ls) : ls \in UNION {[1..m -> pool] : m \in 0..n}}

\* ------------------------------------------------------------ the pass
VARIABLES rawRules, pc, lines, i, scopes, currentScope, detectedHeader, result

vars == <<rawRules, pc, lines, i, scopes, currentScope, detectedHeader, result>>

NoResult == [scopes |-> <<>>, availableScopes |-> <<>>]

Init ==
  /\ rawRules \in Inputs(Pool, MaxLines)
  /\ pc = "start"
  /\ lines = <<>>
  /\ i = 0
  /\ scopes = <<>>
  /\ currentScope = UNDEFINED
  /\ detectedHeader = NULL
  /\ result = NoResult

\* if (!rawRules) return { scopes: { [GLOBAL_KEY]: [] }, availableScopes: [GLOBAL_KEY] }
ReturnEmpty ==
  /\ pc = "start"
  /\ Falsy(rawRules)
  /\ result' = EmptyResult
  /\ pc' = "done"
  /\ UNCHANGED <<rawRules, lines, i, scopes, currentScope, detectedHeader>>

\* the initialisation of scopes, currentScope and lines, and i = 0
Begin ==
  /\ pc = "start"
  /\ ~Falsy(rawRules)
  /\ scopes' = InitialState.scopes
  /\ currentScope' = InitialState.currentScope
  /\ lines' = Split(rawRules)
  /\ i' = 0
  /\ pc' = "loop"
  /\ UNCHANGED <<rawRules, detectedHeader, result>>

\* a continue that does not reach the i++ of the loop
SkipBlankStays ==
  /\ pc = "loop"
  /\ i < Len(lines)
  /\ Falsy(Trim(lines[i+1]))
  /\ UNCHANGED vars

\* if (!line) continue
SkipBlank ==
  /\ pc = "loop"
  /\ i < Len(lines)
  /\ Falsy(Trim(lines[i+1]))
  /\ i' = i + 1
  /\ UNCHANGED <<rawRules, pc, lines, scopes, currentScope, detectedHeader, result>>

\* the iteration for a non-blank line whose detectedHeader is header
Iterate(header) ==
  LET st == ApplyScoping([scopes |-> scopes, currentScope |-> currentScope],
                         header, Trim(lines[i+1]))
  IN /\ detectedHeader' = header
     /\ scopes' = st.scopes
     /\ currentScope' = st.currentScope
     /\ i' = i + 1
     /\ UNCHANGED <<rawRules, pc, lines, result>>

\* a header that is no system tag: select its scope, create the bucket if missing
SwitchScope ==
  /\ pc = "loop"
  /\ i < Len(lines)
  /\ ~Falsy(Trim(lines[i+1]))
  /\ \E header \in {DetectHeader(lines, i)} :
        /\ ~Falsy(header)
        /\ ~IsSystemTag(NormalizedScope(header))
        /\ Iterate(header)

\* a header that is a system tag: nothing is selected, nothing is recorded
IgnoreSystemTag ==
  /\ pc = "loop"
  /\ i < Len(lines)
  /\ ~Falsy(Trim(lines[i+1]))
  /\ \E header \in {DetectHeader(lines, i)} :
        /\ ~Falsy(header)
        /\ IsSystemTag(NormalizedScope(header))
        /\ Iterate(header)

\* no header: scopes[currentScope].push(line)
PushContent ==
  /\ pc = "loop"
  /\ i < Len(lines)
  /\ ~Falsy(Trim(lines[i+1]))
  /\ \E header \in {DetectHeader(lines, i)} :
        /\ Falsy(header)
        /\ HasOwn(scopes, currentScope)
        /\ Iterate(header)

\* return { scopes, availableScopes: Object.keys(scopes) }
Return ==
  /\ pc = "loop"
  /\ i >= Len(lines)
  /\ result' = [scopes |-> scopes, availableScopes |-> ObjectKeys(scopes)]
  /\ pc' = "done"
  /\ UNCHANGED <<rawRules, lines, i, scopes, currentScope, detectedHeader>>

Next ==
  \/ ReturnEmpty
  \/ Begin
  \/ SkipBlank
  \/ SwitchScope
  \/ IgnoreSystemTag
  \/ PushContent
  \/ Return

Spec == Init /\ [][Next]_vars

\* the same pass over the texts made of the lines of RulePool
InitRules ==
  /\ rawRules \in Inputs(RulePool, MaxRuleLines)
  /\ pc = "start"
  /\ lines = <<>>
  /\ i = 0
  /\ scopes = <<>>
  /\ currentScope = UNDEFINED
  /\ detectedHeader = NULL
  /\ result = NoResult

SpecRules == InitRules /\ [][Next]_vars

\* the same pass over the texts made of the lines of NamePool
InitNames ==
  /\ rawRules \in Inputs(NamePool, MaxNameLines)
  /\ pc = "start"
  /\ lines = <<>>
  /\ i = 0
  /\ scopes = <<>>
  /\ currentScope = UNDEFINED
  /\ detectedHeader = NULL
  /\ result = NoResult

SpecNames == InitNames /\ [][Next]_vars

\* lines for the run to completion: a blank line, a system tag, content that
\* the look-ahead can accept, a list item
FairPool ==
  { <<>>,
    <<"[","e","n","d"," ","k","n","o","w","l","e","d","g","e","]">>,
    <<"R","u","l","e"," ","A">>,
    <<" ","-"," ","x">> }

InitFair ==
  /\ rawRules \in Inputs(FairPool, MaxFairLines)
  /\ pc = "start"
  /\ lines = <<>>
  /\ i = 0
  /\ scopes = <<>>
  /\ currentScope = UNDEFINED
  /\ detectedHeader = NULL
  /\ result = NoResult

\* the callback runs synchronously from its call to its return: a step that
\* can be taken is taken
SpecFair == InitFair /\ [][Next]_vars /\ WF_vars(Next)

\* ------------------------------------------------------------ two invocations
\* Two invocations of useKnowledgeScoper whose iterations interleave.  Every
\* variable holds one value per invocation: rawRules, lines, i, scopes,
\* currentScope and detectedHeader are parameters, constants and locals of the
\* callback, created by each invocation for itself.
Calls == {1, 2}

\* lines for the interleaving: a header, content, a list item
CallPool ==
  { <<"[","F","o","o","]",":">>,
    <<"R","u","l","e"," ","A">>,
    <<" ","-"," ","x">> }

\* the locals of every invocation taken from the first one while its loop
\* runs, as if scopes and currentScope were declared outside the callback
LocalsOfFirst(c) ==
  IF pc[1] = "loop"
  THEN [scopes |-> scopes[1], currentScope |-> currentScope[1]]
  ELSE [scopes |-> scopes[c], currentScope |-> currentScope[c]]

\* scopes and currentScope as invocation c sees them: its own
Locals(c) == [scopes |-> scopes[c], currentScope |-> currentScope[c]]

InitCalls ==
  /\ rawRules \in [Calls -> Inputs(CallPool, MaxCallLines)]
  /\ pc = [c \in Calls |-> "start"]
  /\ lines = [c \in Calls |-> <<>>]
  /\ i = [c \in Calls |-> 0]
  /\ scopes = [c \in Calls |-> <<>>]
  /\ currentScope = [c \in Calls |-> UNDEFINED]
  /\ detectedHeader = [c \in Calls |-> NULL]
  /\ result = [c \in Calls |-> NoResult]

\* invocation c takes the early return
CallReturnEmpty(c) ==
  /\ pc[c] = "start"
  /\ Falsy(rawRules[c])
  /\ result' = [result EXCEPT ![c] = EmptyResult]
  /\ pc' = [pc EXCEPT ![c] = "done"]
  /\ UNCHANGED <<rawRules, lines, i, scopes, currentScope, detectedHeader>>

\* invocation c initialises its locals
CallBegin(c) ==
  /\ pc[c] = "start"
  /\ ~Falsy(rawRules[c])
  /\ scopes' = [scopes EXCEPT ![c] = InitialState.scopes]
  /\ currentScope' = [currentScope EXCEPT ![c] = InitialState.currentScope]
  /\ lines' = [lines EXCEPT ![c] = Split(rawRules[c])]
  /\ i' = [i EXCEPT ![c] = 0]
  /\ pc' = [pc EXCEPT ![c] = "loop"]
  /\ UNCHANGED <<rawRules, detectedHeader, result>>

\* invocation c runs one iteration of its for loop
CallIterate(c) ==
  /\ pc[c] = "loop"
  /\ i[c] < Len(lines[c])
  /\ LET st == LoopBody(lines[c], i[c], Locals(c))
     IN /\ scopes' = [scopes EXCEPT ![c] = st.scopes]
        /\ currentScope' = [currentScope EXCEPT ![c] = st.currentScope]
  /\ detectedHeader' = [detectedHeader EXCEPT ![c] =
                          IF Falsy(Trim(lines[c][i[c]+1])) THEN @
                          ELSE DetectHeader(lines[c], i[c])]
  /\ i' = [i EXCEPT ![c] = @ + 1]
  /\ UNCHANGED <<rawRules, pc, lines, result>>

\* invocation c returns its result
CallReturn(c) ==
  /\ pc[c] = "loop"
  /\ i[c] >= Len(lines[c])
  /\ result' = [result EXCEPT ![c] =
                  [scopes |-> scopes[c], availableScopes |-> ObjectKeys(scopes[c])]]
  /\ pc' = [pc EXCEPT ![c] = "done"]
  /\ UNCHANGED <<rawRules, lines, i, scopes, currentScope, detectedHeader>>

NextCalls ==
  \E c \in Calls :
    \/ CallReturnEmpty(c)
    \/ CallBegin(c)
    \/ CallIterate(c)
    \/ CallReturn(c)

SpecCalls == InitCalls /\ [][NextCalls]_vars

\* ------------------------------------------------------------ properties
\* the trimmed line j (0-based) of the text
LineAt(j) == Trim(lines[j+1])
\* line j is not blank and the detection marks it a header
IsHeaderLine(j) == LineAt(j) # <<>> /\ DetectHeader(lines, j) # NULL
\* the name a header text stands for: trimmed, in upper case
NameOf(text) == ToUpperCase(Trim(text))
\* the text is one of the two sentinel texts
IsSentinelText(text) == NameOf(text) \in {START_KNOWLEDGE, END_KNOWLEDGE}
\* line j is a header that opens or selects a scope
IsScopeHeader(j) == IsHeaderLine(j) /\ ~IsSentinelText(DetectHeader(lines, j))
\* line j is recorded as content
IsContentLine(j) == LineAt(j) # <<>> /\ DetectHeader(lines, j) = NULL
\* the scope of line j: that of the last scope header before it, or GLOBAL
ScopeAt(j) ==
  LET hs == {h \in 0..(j-1) : IsScopeHeader(h)}
  IN IF hs = {} THEN GLOBAL_KEY
     ELSE NameOf(DetectHeader(lines, CHOOSE h \in hs : \A o \in hs : o <= h))
\* the content lines among the first n lines whose scope is key, in input order
ContentOf(key, n) ==
  LET idx == SelectSeq([j \in 1..n |-> j - 1],
                       LAMBDA j : IsContentLine(j) /\ ScopeAt(j) = key)
  IN [r \in DOMAIN idx |-> LineAt(idx[r])]
\* sc holds, for each of its scopes, exactly the content of the first n lines
HoldsContent(sc, n) ==
  /\ \A k \in DOMAIN sc : sc[k].val = ContentOf(sc[k].key, n)
  /\ \A j \in 0..(n-1) : IsContentLine(j) => HasOwn(sc, ScopeAt(j))
  /\ \A k, o \in DOMAIN sc : sc[k].key = sc[o].key => k = o

\* C1: each scope's content list is exactly the sequence, in input order, of
\* the trimmed content lines met while that scope was the current one (the
\* scope of the last non-sentinel header before the line, GLOBAL when there is
\* none): after every iteration for the lines read so far, and in the result.
C1_ContentInCurrentScope ==
  /\ pc = "loop" => HoldsContent(scopes, i)
  /\ (pc = "done" /\ ~Falsy(rawRules)) => HoldsContent(result.scopes, Len(lines))

\* a finished pass with content in GLOBAL and in one other scope
C1_Witness ==
  /\ pc = "done"
  /\ Len(result.scopes) = 2
  /\ \A k \in DOMAIN result.scopes : Len(result.scopes[k].val) >= 1

\* C2: GLOBAL is a key of scopes and availableScopes[0] is GLOBAL, for every
\* input.
C2_GlobalIsFirst ==
  pc = "done" =>
    /\ HasOwn(result.scopes, GLOBAL_KEY)
    /\ Len(result.availableScopes) >= 1
    /\ result.availableScopes[1] = GLOBAL_KEY

\* s without the elements that occur earlier in it
RECURSIVE Distinct(_)
Distinct(s) ==
  IF s = <<>> THEN <<>>
  ELSE LET front == Distinct(SubSeq(s, 1, Len(s) - 1))
           last == s[Len(s)]
       IN IF last \in Range(front) THEN front ELSE Append(front, last)
\* GLOBAL, then the names of the scope headers in the order of first occurrence
FirstOccurrenceOrder ==
  LET hs == SelectSeq([j \in 1..Len(lines) |-> j - 1], IsScopeHeader)
  IN Distinct(<<GLOBAL_KEY>> \o [r \in DOMAIN hs |-> NameOf(DetectHeader(lines, hs[r]))])

\* C3: availableScopes is GLOBAL followed by the distinct normalized names of
\* the non-sentinel headers in the order of their first occurrence, whatever
\* the names are.
C3_FirstOccurrenceOrder ==
  pc = "done" => result.availableScopes = FirstOccurrenceOrder

\* the positions, <<scope, place>>, of the content entries that are sentinel texts
SentinelEntries(sc) ==
  {e \in (DOMAIN sc) \X (1..Len(lines)) :
     /\ e[2] \in DOMAIN sc[e[1]].val
     /\ IsSentinelText(sc[e[1]].val[e[2]])}
\* line j consists of a sentinel text
IsSentinelLine(j) == IsSentinelText(lines[j+1])
\* the next non-blank line after line j is a list item
NextIsListItem(j) ==
  \E k \in (j+1)..(Len(lines)-1) :
    /\ LineAt(k) # <<>>
    /\ \A b \in (j+1)..(k-1) : LineAt(b) = <<>>
    /\ IsListItem(LineAt(k))
\* the three lines START KNOWLEDGE / Rule A / END KNOWLEDGE
ScenarioD == Join(<<START_KNOWLEDGE, <<"R","u","l","e"," ","A">>, END_KNOWLEDGE>>)

AtSentinelHeader ==
  /\ pc = "loop"
  /\ i < Len(lines)
  /\ IsHeaderLine(i)
  /\ IsSentinelText(DetectHeader(lines, i))
C5_NoSentinelKey ==
  /\ \A k \in DOMAIN scopes : scopes[k].key \notin {START_KNOWLEDGE, END_KNOWLEDGE}
  /\ \A k \in DOMAIN result.scopes :
       result.scopes[k].key \notin {START_KNOWLEDGE, END_KNOWLEDGE}
C5_Step == AtSentinelHeader => UNCHANGED <<currentScope, scopes>>

\* C5: START KNOWLEDGE and END KNOWLEDGE are never keys of scopes, and the
\* iteration for a line whose header text normalizes to one of them leaves
\* currentScope, the keys and every content list unchanged.
C5_SentinelIsNoOp == []C5_NoSentinelKey /\ [][C5_Step]_vars

\* the iteration for a sentinel header found by the look-ahead has just run,
\* with a scope other than GLOBAL in the table
C5_Witness ==
  /\ pc = "loop"
  /\ i >= 1
  /\ IsHeaderLine(i - 1)
  /\ IsSentinelText(DetectHeader(lines, i - 1))
  /\ detectedHeader = LineAt(i - 1)
  /\ Len(scopes) >= 2

\* the last scope header before line j, or -1
LastScopeHeader(j) ==
  LET hs == {h \in 0..(j-1) : IsScopeHeader(h)}
  IN IF hs = {} THEN -1 ELSE CHOOSE h \in hs : \A o \in hs : o <= h
\* header lines a and b carry texts of one name
SameName(a, b) == NameOf(DetectHeader(lines, a)) = NameOf(DetectHeader(lines, b))
\* among the lines read so far: two scope headers of one name have one entry,
\* and the content that follows either is in that entry's list
C6_OneEntry ==
  pc \in {"loop", "done"} =>
    \A a, b \in 0..(i-1) :
      (a < b /\ IsScopeHeader(a) /\ IsScopeHeader(b) /\ SameName(a, b)) =>
        LET name == NameOf(DetectHeader(lines, a))
        IN /\ Cardinality({k \in DOMAIN scopes : NameOf(scopes[k].key) = name}) = 1
           /\ HasOwn(scopes, name)
           /\ \A c \in 0..(i-1) :
                (IsContentLine(c) /\ LastScopeHeader(c) \in {a, b}) =>
                  LineAt(c) \in Range(Get(scopes, name))
\* the iteration for a scope header whose name an earlier header had: no new
\* key, the keys keep their places, the existing entry becomes the current one
C6_Step ==
  (/\ pc = "loop"
   /\ i < Len(lines)
   /\ IsScopeHeader(i)
   /\ \E a \in 0..(i-1) : IsScopeHeader(a) /\ SameName(a, i)) =>
    /\ OwnKeys(scopes') = OwnKeys(scopes)
    /\ ObjectKeys(scopes') = ObjectKeys(scopes)
    /\ currentScope' = NameOf(DetectHeader(lines, i))
    /\ HasOwn(scopes, currentScope')

\* C6: two header occurrences whose texts differ only by letter case or
\* surrounding whitespace select the same scope entry: the second creates no
\* key, the entry keeps the place of the first, and the content after either
\* goes to the same list.
C6_CaseAndSpaceCollapse == []C6_OneEntry /\ [][C6_Step]_vars

\* two headers of one name with different texts, content after each
C6_Witness ==
  /\ pc = "done"
  /\ Len(lines) = 4
  /\ IsScopeHeader(0) /\ IsContentLine(1) /\ IsScopeHeader(2) /\ IsContentLine(3)
  /\ SameName(0, 2)
  /\ DetectHeader(lines, 0) # DetectHeader(lines, 2)
  /\ Len(Get(result.scopes, NameOf(DetectHeader(lines, 0)))) = 2

\* the lines of the text that are not blank
NonBlankLines == SelectSeq(lines, LAMBDA l : Trim(l) # <<>>)

\* C7: blank lines are no-ops: the result is the result for the text without
\* its blank lines (so texts that differ by blank lines share one result), and
\* no content list holds an empty entry.
C7_BlankLinesAreNoOps ==
  (pc = "done" /\ ~Falsy(rawRules)) =>
    /\ result = Parse(Join(NonBlankLines))
    /\ \A k \in DOMAIN result.scopes :
         \A e \in DOMAIN result.scopes[k].val : result.scopes[k].val[e] # <<>>

\* a finished pass whose look-ahead went over a blank line to a list item
C7_Witness ==
  /\ pc = "done"
  /\ \E j \in 1..(Len(lines)-2) :
       /\ LineAt(j) = <<>>
       /\ IsHeaderLine(j - 1)
       /\ ExplicitHeader(LineAt(j - 1)) = NULL
       /\ IsListItem(LineAt(j + 1))

\* the iteration for a non-blank line that matches none of rules 1-4: it is a
\* header, with the line as its text, exactly under the four conditions, and
\* content of the current scope otherwise
C8_Step ==
  (/\ pc = "loop"
   /\ i < Len(lines)
   /\ LineAt(i) # <<>>
   /\ ExplicitHeader(LineAt(i)) = NULL) =>
    LET L == LineAt(i)
    IN IF /\ NextIsListItem(i)
          /\ ~IsListItem(L)
          /\ Len(L) < ShortMaxLen
          /\ L[Len(L)] \notin {".", "!", "?"}
       THEN /\ detectedHeader' = L
            /\ \A k \in DOMAIN scopes : scopes'[k] = scopes[k]
            /\ \A k \in DOMAIN scopes' : k \notin DOMAIN scopes => scopes'[k].val = <<>>
       ELSE /\ detectedHeader' = NULL
            /\ currentScope' = currentScope
            /\ OwnKeys(scopes') = OwnKeys(scopes)
            /\ \A k \in DOMAIN scopes :
                 scopes'[k].val = IF scopes[k].key = currentScope
                                  THEN Append(scopes[k].val, L)
                                  ELSE scopes[k].val

\* C8: a trimmed non-blank line that matches none of rules 1-4 is a header if
\* and only if the next non-blank line exists and is a list item, the line is
\* no list item, its length is below 60 and it does not end in '.', '!' or
\* '?'; the header text is then the line itself, and otherwise the line is
\* content of the current scope.
C8_LookAheadRule == [][C8_Step]_vars

\* the look-ahead has just accepted a line of 59 characters
C8_Witness ==
  /\ pc = "loop"
  /\ i >= 1
  /\ ExplicitHeader(LineAt(i - 1)) = NULL
  /\ detectedHeader = LineAt(i - 1)
  /\ Len(detectedHeader) = ShortMaxLen - 1

\* the iteration for a non-blank line: the first rule that matches, in the
\* order bracketed, markdown, bold, colon, gives the header text; the
\* look-ahead decides only when none of the four matches
C9_Step ==
  (pc = "loop" /\ i < Len(lines) /\ LineAt(i) # <<>>) =>
    LET L == LineAt(i)
        r1 == bracketMatch(L)
        r2 == mdMatch(L)
        r3 == boldMatch(L)
        r4 == IF Len(L) < ColonMaxLen THEN colonMatch(L) ELSE NULL
    IN /\ r1 # NULL => detectedHeader' = r1
       /\ (r1 = NULL /\ r2 # NULL) => detectedHeader' = r2
       /\ (r1 = NULL /\ r2 = NULL /\ r3 # NULL) => detectedHeader' = r3
       /\ (r1 = NULL /\ r2 = NULL /\ r3 = NULL /\ r4 # NULL) => detectedHeader' = r4
       /\ (r1 = NULL /\ r2 = NULL /\ r3 = NULL /\ r4 = NULL) => detectedHeader' \in {L, NULL}
       /\ (r1 # NULL \/ r2 # NULL \/ r3 # NULL \/ r4 # NULL) => detectedHeader' # L
       /\ L = <<"[","F","o","o","]",":">> => detectedHeader' = <<"F","o","o">>

\* C9: the rules apply in the order bracketed, markdown, bold, colon,
\* look-ahead and the first match alone gives the header text: "[Foo]:" is a
\* bracketed header of text "Foo", and the look-ahead is consulted only for
\* lines that match none of rules 1-4.
C9_RulePriority == [][C9_Step]_vars

\* "[Foo]:" was read as the header Foo although a list item follows it
C9_Witness ==
  /\ pc = "loop"
  /\ i >= 1
  /\ i < Len(lines)
  /\ LineAt(i - 1) = <<"[","F","o","o","]",":">>
  /\ detectedHeader = <<"F","o","o">>
  /\ IsListItem(LineAt(i))

\* C10: for the missing and for the empty text the result is exactly
\* { scopes: { GLOBAL: [] }, availableScopes: [GLOBAL] }.
C10_EmptyInput ==
  (pc = "done" /\ (rawRules = UNDEFINED \/ rawRules = <<>>)) =>
    /\ result.scopes = <<[key |-> GLOBAL_KEY, val |-> <<>>]>>
    /\ result.availableScopes = <<GLOBAL_KEY>>

\* the pass has returned for the empty text
C10_Witness == pc = "done" /\ rawRules = <<>>

\* r is a well-formed result: availableScopes has no duplicates and holds
\* exactly the keys of scopes, no key occurs twice, and each key is mapped to a
\* list of trimmed non-blank lines of the text
WellFormed(r) ==
  /\ \A a, b \in DOMAIN r.availableScopes :
       r.availableScopes[a] = r.availableScopes[b] => a = b
  /\ Range(r.availableScopes) = Range(OwnKeys(r.scopes))
  /\ Len(r.availableScopes) = Len(r.scopes)
  /\ \A a, b \in DOMAIN r.scopes : r.scopes[a].key = r.scopes[b].key => a = b
  /\ \A k \in DOMAIN r.scopes :
       /\ DOMAIN r.scopes[k].val = 1..Len(r.scopes[k].val)
       /\ \A e \in DOMAIN r.scopes[k].val :
            \E j \in 0..(Len(lines)-1) : LineAt(j) # <<>> /\ r.scopes[k].val[e] = LineAt(j)

\* C11: the pass is total: currentScope is a key of scopes throughout the loop
\* (so the push of a content line finds its list and no step fails), the index
\* stays within the lines, and the result is well-formed.
C11_TotalAndWellFormed ==
  /\ pc \in {"start", "loop", "done"}
  /\ pc = "loop" => HasOwn(scopes, currentScope) /\ i \in 0..Len(lines)
  /\ pc = "done" => WellFormed(result)

\* a content line is about to be pushed to a scope other than GLOBAL
C11_Witness ==
  /\ pc = "loop"
  /\ i < Len(lines)
  /\ IsContentLine(i)
  /\ currentScope # GLOBAL_KEY
  /\ HasOwn(scopes, currentScope)

\* C12: invocations are independent: however the iterations of two
\* invocations interleave, each returns the result it returns when it runs
\* alone, and a step of one leaves the scope table and the current scope of
\* the other unchanged.
C12_IndependentInvocations ==
  /\ \A c \in Calls : pc[c] = "done" => result[c] = Parse(rawRules[c])
  /\ \A c \in Calls : pc[c] = "start" => scopes[c] = <<>> /\ currentScope[c] = UNDEFINED
  /\ \A c \in Calls :
       pc[c] = "loop" =>
         Loop(lines[c], i[c], Locals(c)) = Loop(lines[c], 0, InitialState)

\* both invocations are inside their loops, on different texts and in
\* different scopes
C12_Witness ==
  /\ pc[1] = "loop" /\ pc[2] = "loop"
  /\ i[1] = 1 /\ i[2] = 1
  /\ Len(lines[1]) = 2 /\ Len(lines[2]) = 2
  /\ rawRules[1] # rawRules[2]
  /\ currentScope[1] # currentScope[2]

\* the iteration for a header that is no sentinel: the normalized name becomes
\* the current scope, an empty list is created for it only when the table has
\* none, and nothing else in the table changes
C13_Step ==
  (pc = "loop" /\ i < Len(lines) /\ IsScopeHeader(i)) =>
    LET name == NameOf(DetectHeader(lines, i))
    IN /\ currentScope' = name
       /\ scopes' = IF \E k \in DOMAIN scopes : scopes[k].key = name
                    THEN scopes
                    ELSE Append(scopes, [key |-> name, val |-> <<>>])

\* C13: a non-sentinel header sets currentScope to the normalized name,
\* creates an empty list only for a name the table lacks, is not recorded as
\* content and leaves every existing list unchanged; a re-selected scope keeps
\* its earlier content and later content lines are appended after it.
C13_HeaderFrame ==
  /\ [][C13_Step]_vars
  /\ [](pc = "loop" => HoldsContent(scopes, i))

\* a scope that already holds content has just been selected again
C13_Witness ==
  /\ pc = "loop"
  /\ i >= 3
  /\ IsScopeHeader(i - 1)
  /\ \E a \in 0..(i-2) : IsScopeHeader(a) /\ SameName(a, i - 1)
  /\ currentScope = NameOf(DetectHeader(lines, i - 1))
  /\ currentScope # GLOBAL_KEY
  /\ Len(Get(scopes, currentScope)) >= 1

\* the line consists of letters, digits, spaces, underscores, dashes and
\* slashes followed by one final colon
IsLabelLine(L) ==
  /\ Len(L) >= 2
  /\ L[Len(L)] = ":"
  /\ \A k \in 1..(Len(L)-1) :
       \/ L[k] \in Range(Lower) \cup Range(Upper) \cup Range(Digits)
       \/ L[k] \in {" ", "_", "-", "/"}
\* the iteration for such a line: below 50 characters the text before the
\* colon is the header; from 50 on only the look-ahead can make it a header
C14_Step ==
  (pc = "loop" /\ i < Len(lines) /\ IsLabelLine(LineAt(i))) =>
    LET L == LineAt(i)
    IN IF Len(L) < ColonMaxLen
       THEN detectedHeader' = SubSeq(L, 1, Len(L) - 1)
       ELSE detectedHeader' =
              IF /\ NextIsListItem(i)
                 /\ ~IsListItem(L)
                 /\ Len(L) < ShortMaxLen
                 /\ L[Len(L)] \notin {".", "!", "?"}
              THEN L
              ELSE NULL

\* C14: a line of label characters with one final colon is a header by the
\* colon rule if and only if its length, colon included, is below 50, with the
\* text before the colon as header text; at 50 or more it is a header only if
\* the look-ahead accepts it, and content otherwise.
C14_ColonLengthLimit == [][C14_Step]_vars

\* a colon line of 49 characters has just been read as a header
C14_Witness ==
  /\ pc = "loop"
  /\ i >= 1
  /\ IsLabelLine(LineAt(i - 1))
  /\ Len(LineAt(i - 1)) = ColonMaxLen - 1
  /\ detectedHeader = SubSeq(LineAt(i - 1), 1, ColonMaxLen - 2)

\* successive iterations read successive lines
C15_Step == (pc = "loop" /\ pc' = "loop") => i' = i + 1
\* the look-ahead scan from line i stops at the first non-blank line after i,
\* or at the end of the lines
C15_ScanStops ==
  (pc = "loop" /\ i < Len(lines)) =>
    LET n == NextIndex(lines, i)
    IN /\ n \in (i+1)..Len(lines)
       /\ n < Len(lines) => LineAt(n) # <<>>
       /\ \A b \in (i+1)..(n-1) : LineAt(b) = <<>>
\* the loop starts at the first line and the return comes after the last one
C15_AllLines ==
  /\ (pc = "loop" /\ i = 0) \/ pc # "loop" \/ i \in 1..Len(lines)
  /\ (pc = "done" /\ ~Falsy(rawRules)) => i = Len(lines)

\* C15: for every finite input the pass terminates: the lines are read once
\* each, in input order, the look-ahead scan stops at a non-blank line or at
\* the end of the input, and the result is returned when the lines are
\* exhausted.
C15_Terminates ==
  /\ <>(pc = "done")
  /\ [][C15_Step]_vars
  /\ []C15_ScanStops
  /\ []C15_AllLines

\* the pass has returned after reading three lines in order; the look-ahead
\* scan from the first one went over the blank second one to the third
C15_Witness ==
  /\ pc = "done"
  /\ i = 3
  /\ Len(lines) = 3
  /\ LineAt(0) # <<>>
  /\ LineAt(1) = <<>>
  /\ NextIndex(lines, 0) = 2
  /\ result = Parse(rawRules)

\* line j (0-based) satisfies the look-ahead conditions: it is not blank, no
\* explicit rule matches it, the next non-blank line is a list item, and the
\* line is no list item, shorter than 60 characters and no sentence
LookAheadAccepts(ls, j) ==
  LET L == Trim(ls[j+1])
  IN /\ L # <<>>
     /\ bracketMatch(L) = NULL /\ mdMatch(L) = NULL /\ boldMatch(L) = NULL
     /\ (colonMatch(L) = NULL \/ Len(L) >= ColonMaxLen)
     /\ \E k \in (j+1)..(Len(ls)-1) :
          /\ Trim(ls[k+1]) # <<>>
          /\ \A b \in (j+1)..(k-1) : Trim(ls[b+1]) = <<>>
          /\ IsListItem(Trim(ls[k+1]))
     /\ ~IsListItem(L)
     /\ Len(L) < ShortMaxLen
     /\ L[Len(L)] \notin {".", "!", "?"}
\* the lines with every accepted line rewritten as the markdown header of
\* its own text, a header for both revisions
Promoted(ls) ==
  [k \in DOMAIN ls |->
     IF LookAheadAccepts(ls, k - 1) THEN <<"#", " ">> \o Trim(ls[k]) ELSE ls[k]]

\* C16: the look-ahead revision and the earlier revision return the same
\* result for every text in which no line satisfies the look-ahead conditions
\* (and for a missing or empty text); for every text they classify every
\* line alike except the accepted lines, headers in the former and content in
\* the latter, so that the result of the former is the result of the latter
\* for the text with the accepted lines written as explicit headers.
C16_RefinesEarlierRevision ==
  /\ (pc = "done" /\ Falsy(rawRules)) => result = ParseV2(rawRules)
  /\ (pc = "done" /\ ~Falsy(rawRules)) =>
       /\ (\A j \in 0..(Len(lines)-1) : ~LookAheadAccepts(lines, j)) =>
            result = ParseV2(rawRules)
       /\ \A j \in 0..(Len(lines)-1) :
            LineAt(j) # <<>> =>
              IF LookAheadAccepts(lines, j)
              THEN /\ DetectHeader(lines, j) = LineAt(j)
                   /\ ExplicitHeaderV2(LineAt(j)) = NULL
              ELSE DetectHeader(lines, j) = ExplicitHeaderV2(LineAt(j))
       /\ result = ParseV2(Join(Promoted(lines)))

\* a finished pass over a text with an accepted line, on which the two
\* revisions return different results
C16_Witness ==
  /\ pc = "done"
  /\ ~Falsy(rawRules)
  /\ \E j \in 0..(Len(lines)-1) : LookAheadAccepts(lines, j)
  /\ result # ParseV2(rawRules)
  /\ result = ParseV2(Join(Promoted(lines)))

\* every key of the table is its own trimmed, uppercased form
KeysNormalized(sc) == \A k \in DOMAIN sc : sc[k].key = ToUpperCase(Trim(sc[k].key))
\* no key of the table is the empty string
KeysNonEmpty(sc) == \A k \in DOMAIN sc : sc[k].key # <<>>

\* C17: at every point of the pass and in the result, every key of scopes is a
\* non-empty string that equals its own trimmed, uppercased form, and the
\* selected scope is never the empty name: a bracketed or bold header whose
\* inner text is only whitespace creates and selects no scope.
C17_KeysNonEmptyNormalized ==
  /\ KeysNormalized(scopes) /\ KeysNonEmpty(scopes)
  /\ currentScope # <<>>
  /\ pc = "done" => KeysNormalized(result.scopes) /\ KeysNonEmpty(result.scopes)

====
